---- MODULE Spec2Model ----
(***************************************************************************)
(* A model of aicommit: the rate limiter and the batch runner              *)
(* (src/services/aiService.ts), the diff chunker and compressor, and the   *)
(* AIService.generateCommitMessage flow.                                   *)
(*                                                                         *)
(* Three specifications share the module:                                  *)
(*   Spec      rateLimiter + batchProcess, with a clock                    *)
(*   SpecDiff  splitDiffIntoChunks / processDiff applied to bounded diffs  *)
(*   SpecGen   AIService.generateCommitMessage over a persisted config     *)
(***************************************************************************)
EXTENDS Integers, Sequences, FiniteSets, TLC

(***************************************************************************)
(* Program constants (config/constants.ts).                                *)
(***************************************************************************)
FREE_ACCOUNT_COOLDOWN == 60000
MAX_DIFF_LENGTH == 15000
CHUNK_THRESHOLD == 50000

(***************************************************************************)
(* Bounds of the model.                                                    *)
(***************************************************************************)
MaxItems == 6
MaxTicks == 8
MaxSegs == 4
MaxCalls == 2
MaxGenTicks == 2
MaxRules == 2
MaxDispatches == 3

\* The clock is sampled at multiples of half a cooldown, from a start time
\* late enough that an unset LAST_REQUEST_TIME (0) is older than a cooldown,
\* as it is with Date.now().
TimeStep == FREE_ACCOUNT_COOLDOWN \div 2
StartTime == 2 * FREE_ACCOUNT_COOLDOWN
MaxTime == StartTime + MaxTicks * TimeStep

VARIABLES
    now,          \* Date.now()
    config,       \* the Config object handed to batchProcess / rateLimiter
    items,        \* items.length; the items are 1..items
    i,            \* batchProcess: the loop index
    outcome,      \* per item: "none", "inflight", "ok", "empty", "fail"
    results,      \* batchProcess: results
    pc,           \* batchProcess: "loop", "wait", "inflight", "done"
    rlNow,        \* rateLimiter: its local `now`
    wakeAt,       \* rateLimiter: when its setTimeout is due
    returned,     \* what batchProcess returned
    rlCalls,      \* number of rateLimiter calls that have returned
    prevReturn,   \* time the rateLimiter call before the last returned, -1 if none
    lastReturn,   \* time the last rateLimiter call returned, -1 if none
    lastWaited    \* whether the rateLimiter call before the last had to wait

batchRest == <<config, items, i, outcome, results, pc, rlNow, wakeAt,
               returned, rlCalls, prevReturn, lastReturn, lastWaited>>

batchVars == <<now, batchRest>>

VARIABLES
    diff,         \* the diff text, as the segments diff.split('diff --git') yields
    chunks,       \* what splitDiffIntoChunks(diff) returned
    processed,    \* what processDiff(diff) returned
    splitDone,    \* splitDiffIntoChunks has been applied
    processDone   \* processDiff has been applied

diffVars == <<diff, chunks, processed, splitDone, processDone>>

VARIABLES
    entry,        \* which generateCommitMessage was called on diff: "none",
                  \* "function" (aiService.ts:70) or "method" (aiService.ts:299)
    sent          \* the completion requests it made, in order

pathVars == <<entry, sent>>

VARIABLES
    fdraft,       \* the draft message a formatting rule is first applied to, in parts
    fmsg,         \* the message after the rules applied so far
    applied       \* the rules applied so far, in order

fmtVars == <<fdraft, fmsg, applied>>

VARIABLES
    cfile,        \* the persisted config, as the aicommit command line sees it
    copts,        \* the CommitOptions of the CommitCommand.execute call
    cpc,          \* execute: "idle", "generating", "confirming", "done", "failed"
    git,          \* the git commands the call has run, in order
    gitFailed,    \* the one of them that failed, "" if none
    asked,        \* the call has asked the user to confirm the message
    shown,        \* the call has displayed the message of a dry run
    requestModel, \* the model of the completion request of the call, "" if none
    setArg,       \* the argument of the last setModel call, "" if none
    setResult,    \* its result: "none", "ok", "invalid model", "write failed"
    cfileAtSet    \* the config it read

cliVars == <<cfile, copts, cpc, git, gitFailed, asked, shown, requestModel,
             setArg, setResult, cfileAtSet>>

VARIABLES
    configFile,   \* the persisted config, ~/.aicommit
    env,          \* process.env: which API keys it holds
    service,      \* AIService.service
    gpc,          \* generateCommitMessage: "idle", "awaiting", "returned", "failed"
    gconfig,      \* generateCommitMessage: its local `config`
    options,      \* the GenerateMessageOptions of the call
    prompt,       \* the prompt of the completion request of the call, <<>> if none
    reply,        \* what the provider answered, <<>> if nothing
    message,      \* the value the call returned, NoMessage if none
    thrown,       \* the message of the error the call threw, <<>> if none
    cause,        \* the message of the error that made the call fail, <<>> if none
    calls,        \* calls started
    dispatched,   \* the call has sent its completion request to the provider
    fileAtCall,   \* the persisted config when the call started
    calledAt      \* the clock when the call started

genVars == <<configFile, env, service, gpc, gconfig, options, prompt, reply,
             message, thrown, cause, calls, dispatched, fileAtCall, calledAt>>

VARIABLES
    rfile,        \* two processes: the persisted config they share
    rpc,          \* per process: "idle", "awaiting", "returned", "rejected", "failed"
    rconf,        \* per process: generateCommitMessage's local `config`
    rcur,         \* per process: the place in rlog of its request, 0 if none
    rlog          \* the completion requests dispatched, in order: the process,
                  \* the time, whether another call was under way, the result

raceVars == <<rfile, rpc, rconf, rcur, rlog>>

vars == <<batchVars, diffVars, pathVars, fmtVars, genVars, cliVars, raceVars>>

(***************************************************************************)
(* Strings produced by the processor: the non-empty output of item k is    *)
(* <<k>>, the empty string is <<>>.                                        *)
(***************************************************************************)
EmptyString == <<>>

Output(k) == <<k>>

\* Boolean(s) of a string
Truthy(s) == s # EmptyString

\* the window of a paid account, whatever the account
MAX_CONCURRENT_REQUESTS_PAID(c) == 5

\* aiService.ts:35
MAX_CONCURRENT_REQUESTS(c) == IF c.IS_FREE_ACCOUNT THEN 2 ELSE 5

Min(a, b) == IF a < b THEN a ELSE b

\* aiService.ts:38  items.slice(i, i + MAX_CONCURRENT_REQUESTS), as item numbers
Batch(n, idx, c) ==
    [k \in 1..(Min(idx + MAX_CONCURRENT_REQUESTS(c), n) - idx) |-> idx + k]

\* aiService.ts:46-49  what the catch block of an item returns
CaughtPlaceholder == <<0>>

Caught == EmptyString

\* aiService.ts:43-50  the value an item's wrapper promise resolves to
Settled(k, o) ==
    CASE o = "ok"    -> Output(k)
      [] o = "empty" -> EmptyString
      [] o = "fail"  -> Caught

\* aiService.ts:42-51  Promise.all: one value per position of the batch
BatchResults(batch, out) == [p \in 1..Len(batch) |-> Settled(batch[p], out[batch[p]])]

\* aiService.ts:53  results.push(...batchResults)
PushFront(res, batchResults) == batchResults \o res

Push(res, batchResults) == res \o batchResults

\* aiService.ts:60  results.filter(Boolean)
FilterBoolean(res) == SelectSeq(res, Truthy)

(***************************************************************************)
(* rateLimiter (aiService.ts:12-27)                                        *)
(***************************************************************************)
\* aiService.ts:15  config.LAST_REQUEST_TIME || 0
LastRequest(c) == c.LAST_REQUEST_TIME

\* aiService.ts:16
TimeSinceLastRequest(c, t) == t - LastRequest(c)

\* aiService.ts:18
MustWait(c, t) == c.IS_FREE_ACCOUNT /\ TimeSinceLastRequest(c, t) < FREE_ACCOUNT_COOLDOWN

\* aiService.ts:19
WaitTime(c, t) == FREE_ACCOUNT_COOLDOWN - TimeSinceLastRequest(c, t)

\* aiService.ts:25  the time written to LAST_REQUEST_TIME by a call that
\* read the clock at t and returns at r
Stamp(t, r) == t

\* aiService.ts:13,25  the config after a call that read the clock at t and returns at r
AfterRateLimiter(c, t, r) ==
    IF c.IS_FREE_ACCOUNT THEN [c EXCEPT !.LAST_REQUEST_TIME = Stamp(t, r)] ELSE c

InitBatch ==
    /\ now = StartTime
    /\ config \in ({[IS_FREE_ACCOUNT |-> FALSE, LAST_REQUEST_TIME |-> 0]}
                   \cup [IS_FREE_ACCOUNT : {TRUE},
                         LAST_REQUEST_TIME : {0, StartTime - TimeStep, StartTime}])
    /\ items \in 0..MaxItems
    /\ i = 0
    /\ outcome = [k \in 1..items |-> "none"]
    /\ results = <<>>
    /\ pc = "loop"
    /\ rlNow = 0
    /\ wakeAt = 0
    /\ returned = <<>>
    /\ rlCalls = 0
    /\ prevReturn = -1
    /\ lastReturn = -1
    /\ lastWaited = FALSE

\* aiService.ts:42-45  batch.map: every item of the window is handed to the processor
Dispatch ==
    outcome' = [k \in 1..items |->
                  IF k > i /\ k <= i + MAX_CONCURRENT_REQUESTS(config)
                  THEN "inflight" ELSE outcome[k]]

\* a rateLimiter call counted twice
RateLimiterReturnsTwice(waited) ==
    /\ rlCalls' = rlCalls + 2
    /\ prevReturn' = lastReturn
    /\ lastReturn' = now
    /\ lastWaited' = waited

\* aiService.ts:40  a rateLimiter call has returned
RateLimiterReturns(waited) ==
    /\ rlCalls' = rlCalls + 1
    /\ prevReturn' = lastReturn
    /\ lastReturn' = now
    /\ lastWaited' = waited

\* aiService.ts:37-45 with 12-27: the loop continues, rateLimiter is called; it
\* either returns at once and the window is dispatched, or it starts its timer.
LoopEnter ==
    /\ pc = "loop"
    /\ i < items
    /\ IF MustWait(config, now)
       THEN /\ pc' = "wait"
            /\ rlNow' = now
            /\ wakeAt' = now + WaitTime(config, now)
            /\ UNCHANGED <<config, outcome, rlCalls, prevReturn, lastReturn, lastWaited>>
       ELSE /\ config' = AfterRateLimiter(config, now, now)
            /\ RateLimiterReturns(FALSE)
            /\ Dispatch
            /\ pc' = "inflight"
            /\ UNCHANGED <<rlNow, wakeAt>>
    /\ UNCHANGED <<now, items, i, results, returned>>
    /\ UNCHANGED <<diffVars, pathVars, fmtVars, genVars, cliVars, raceVars>>

\* aiService.ts:21-25 then 42-45: the timer fires (never early), rateLimiter
\* stamps the config and returns, and the window is dispatched.
RateLimiterWake ==
    /\ pc = "wait"
    /\ now >= wakeAt
    /\ config' = AfterRateLimiter(config, rlNow, now)
    /\ RateLimiterReturns(TRUE)
    /\ Dispatch
    /\ pc' = "inflight"
    /\ UNCHANGED <<now, items, i, results, rlNow, wakeAt, returned>>
    /\ UNCHANGED <<diffVars, pathVars, fmtVars, genVars, cliVars, raceVars>>

\* aiService.ts:43-53: one processor invocation settles (resolves with a
\* non-empty string, resolves with '', or rejects); when it is the last of its
\* window, Promise.all resolves and the window's results are pushed.
Settle(k, o) ==
    /\ pc = "inflight"
    /\ outcome[k] = "inflight"
    /\ outcome' = [outcome EXCEPT ![k] = o]
    /\ IF \A j \in 1..items : j # k => outcome[j] # "inflight"
       THEN /\ results' = Push(results, BatchResults(Batch(items, i, config), outcome'))
            /\ i' = i + MAX_CONCURRENT_REQUESTS(config)
            /\ pc' = "loop"
       ELSE UNCHANGED <<results, i, pc>>
    /\ UNCHANGED <<now, config, items, rlNow, wakeAt, returned, rlCalls,
                   prevReturn, lastReturn, lastWaited>>
    /\ UNCHANGED <<diffVars, pathVars, fmtVars, genVars, cliVars, raceVars>>

\* aiService.ts:37,60: the loop ends and the filtered results are returned
Return ==
    /\ pc = "loop"
    /\ i >= items
    /\ returned' = FilterBoolean(results)
    /\ pc' = "done"
    /\ UNCHANGED <<now, config, items, i, outcome, results, rlNow, wakeAt,
                   rlCalls, prevReturn, lastReturn, lastWaited>>
    /\ UNCHANGED <<diffVars, pathVars, fmtVars, genVars, cliVars, raceVars>>

\* Time passes. The clock is read only by rateLimiter under a free account, so
\* it is advanced where a read can follow: at the loop head (the time the
\* window took) and during the rate limiter's wait.
Tick ==
    /\ pc \in {"loop", "wait"}
    /\ config.IS_FREE_ACCOUNT
    /\ i < items
    /\ now < MaxTime
    /\ now' = now + TimeStep
    /\ UNCHANGED <<config, items, i, outcome, results, pc, rlNow, wakeAt,
                   returned, rlCalls, prevReturn, lastReturn, lastWaited>>
    /\ UNCHANGED <<diffVars, pathVars, fmtVars, genVars, cliVars, raceVars>>

NextBatch ==
    \/ LoopEnter
    \/ RateLimiterWake
    \/ \E k \in 1..items : \E o \in {"ok", "empty", "fail"} : Settle(k, o)
    \/ Return
    \/ Tick


\* The batch runner at rest, for the specifications that do not run it
BatchIdle ==
    /\ now = StartTime
    /\ config = [IS_FREE_ACCOUNT |-> FALSE, LAST_REQUEST_TIME |-> 0]
    /\ items = 0
    /\ i = 0
    /\ outcome = <<>>
    /\ results = <<>>
    /\ pc = "done"
    /\ rlNow = 0
    /\ wakeAt = 0
    /\ returned = <<>>
    /\ rlCalls = 0
    /\ prevReturn = -1
    /\ lastReturn = -1
    /\ lastWaited = FALSE

(***************************************************************************)
(* Diff text.                                                              *)
(*                                                                         *)
(* A diff is the sequence of segments that diff.split('diff --git')        *)
(* yields: the text is seg[1] 'diff --git' seg[2] 'diff --git' ... seg[n], *)
(* n >= 1, and no segment contains the delimiter. Every string is exactly  *)
(* one such sequence. A segment is the sequence of lines that              *)
(* section.split('\n') yields (at least one line). A line is known by its  *)
(* class and its length n:                                                 *)
(*   "+"  starts with '+'            "-"  starts with '-'                  *)
(*   "h"  a file header matching /a\/(.+) b\//, f the length of group 1    *)
(*   "c"  any other line with a non-blank character                        *)
(*   "w"  a line of white space only (n = 0: the empty line)               *)
(***************************************************************************)
Line(k, n) == [k |-> k, n |-> n, f |-> 0]

Header(n, f) == [k |-> "h", n |-> n, f |-> f]

\* the empty string
EmptySeg == <<Line("w", 0)>>

RECURSIVE SumLen(_)
SumLen(lines) == IF lines = <<>> THEN 0 ELSE Head(lines).n + SumLen(Tail(lines))

\* the length of lines.join('\n')
JoinedLen(lines) == IF lines = <<>> THEN 0 ELSE SumLen(lines) + Len(lines) - 1

\* section.length
SegLen(seg) == JoinedLen(seg)

\* !section.trim()
IsBlank(seg) == \A l \in 1..Len(seg) : seg[l].k = "w"

\* 'diff --git'.length
DELIM_LEN == 10

RECURSIVE SumSegLen(_)
SumSegLen(d) == IF d = <<>> THEN 0 ELSE SegLen(Head(d)) + SumSegLen(Tail(d))

\* diff.length
DiffLen(d) == SumSegLen(d) + DELIM_LEN * (Len(d) - 1)

\* A file section of `full` characters after its delimiter: a header, a
\* context line that pads it, one added and one removed line, a final newline.
Sized(full) ==
    <<Header(20, 4), Line("c", full - DELIM_LEN - 224), Line("+", 100),
      Line("-", 100), Line("w", 0)>>

\* The segments the diffs of the model are made of
Segments ==
    { EmptySeg,                                   \* ''
      <<Line("w", 0), Line("w", 0)>>,             \* '\n'
      <<Line("c", 5)>>,                           \* text with no header and no newline
      <<Header(20, 4), Line("c", 10), Line("-", 8), Line("+", 8), Line("w", 0)>>,
      Sized(MAX_DIFF_LENGTH \div 3),
      Sized(MAX_DIFF_LENGTH \div 2),
      \* larger than MAX_DIFF_LENGTH, with more than 5 changed lines
      <<Header(20, 4), Line("+", 2000), Line("+", 2000), Line("-", 2000),
        Line("+", 2000), Line("-", 2000), Line("+", 2000), Line("-", 2000),
        Line("c", 5961), Line("w", 0)>>,
      \* one very long added line
      <<Header(20, 4), Line("+", 40000), Line("w", 0)>> }

Diffs == UNION {[1..n -> Segments] : n \in 1..MaxSegs}

(***************************************************************************)
(* Text built from a diff d, as a sequence of pieces.                      *)
(***************************************************************************)
Raw(j) == [t |-> "raw", seg |-> j]          \* the segment d[j] as it is
Delim == [t |-> "delim", seg |-> 0]         \* 'diff --git'
NL == [t |-> "nl", seg |-> 0]               \* '\n'
SummaryOf(j) == [t |-> "summary", seg |-> j]   \* the summary header of d[j]
RepsOf(j) == [t |-> "reps", seg |-> j]      \* representative changes of d[j]
Truncated == [t |-> "truncated", seg |-> 0] \* '\n...(truncated)\n'
Remaining == [t |-> "remaining", seg |-> 0] \* '\n...(remaining diffs summarized)'

\* the diff itself
RECURSIVE DiffTextFrom(_, _)
DiffTextFrom(d, j) ==
    IF j > Len(d) THEN <<>>
    ELSE (IF j = 1 THEN <<Raw(1)>> ELSE <<Delim, Raw(j)>>) \o DiffTextFrom(d, j + 1)

DiffText(d) == DiffTextFrom(d, 1)

(***************************************************************************)
(* Lengths of the literals of processDiff (aiService.ts:238-255).          *)
(***************************************************************************)
SUMMARY_OPEN_LEN == 12        \* '\ndiff --git '
SUMMARY_OF_LEN == 26          \* '--- Summary of changes in '
SUMMARY_CLOSE_LEN == 5        \* ' ---\n'
COUNTS_OPEN_LEN == 4          \* '+++ '
ADDITIONS_LEN == 12           \* ' additions, '
DELETIONS_LEN == 11           \* ' deletions\n'
TRUNCATED_LEN == 16           \* '\n...(truncated)\n'
TRUNCATED_COUNTED == 15       \* what currentLength counts for it
REMAINING_LEN == 32           \* '\n...(remaining diffs summarized)'
VERBATIM_COUNTED == 10        \* what currentLength counts for '\ndiff --git'
UNKNOWN_FILE_LEN == 12        \* 'unknown file'
REPRESENTATIVE == 5           \* .slice(0, 5)

\* the length of a number written in decimal
RECURSIVE Digits(_)
Digits(n) == IF n < 10 THEN 1 ELSE 1 + Digits(n \div 10)

\* aiService.ts:228-229
FileHeader(seg) == seg[1]
Changes(seg) == Tail(seg)

\* aiService.ts:231-232  fileName.length
FileNameLen(seg) == IF FileHeader(seg).k = "h" THEN FileHeader(seg).f ELSE UNKNOWN_FILE_LEN

\* aiService.ts:234-235
Additions(seg) == Len(SelectSeq(Changes(seg), LAMBDA l : l.k = "+"))
Deletions(seg) == Len(SelectSeq(Changes(seg), LAMBDA l : l.k = "-"))

\* aiService.ts:238-240  summary.length
SummaryLen(seg) ==
    SUMMARY_OPEN_LEN + FileHeader(seg).n + 1
    + SUMMARY_OF_LEN + FileNameLen(seg) + SUMMARY_CLOSE_LEN
    + COUNTS_OPEN_LEN + Digits(Additions(seg)) + ADDITIONS_LEN
    + Digits(Deletions(seg)) + DELETIONS_LEN

\* aiService.ts:242-245  the lines of representativeChanges
RepresentativeChanges(seg) ==
    LET changed == SelectSeq(Changes(seg), LAMBDA l : l.k \in {"+", "-"})
    IN  SubSeq(changed, 1, Min(REPRESENTATIVE, Len(changed)))

\* the length of one piece of text built from d
PieceLen(d, p) ==
    CASE p.t = "raw"       -> SegLen(d[p.seg])
      [] p.t = "delim"     -> DELIM_LEN
      [] p.t = "nl"        -> 1
      [] p.t = "summary"   -> SummaryLen(d[p.seg])
      [] p.t = "reps"      -> JoinedLen(RepresentativeChanges(d[p.seg]))
      [] p.t = "truncated" -> TRUNCATED_LEN
      [] p.t = "remaining" -> REMAINING_LEN

RECURSIVE TextLen(_, _)
TextLen(d, text) ==
    IF text = <<>> THEN 0 ELSE PieceLen(d, Head(text)) + TextLen(d, Tail(text))

(***************************************************************************)
(* splitDiffIntoChunks (aiService.ts:190-213)                              *)
(***************************************************************************)
\* aiService.ts:191  diff.split('diff --git').filter(Boolean), as segment numbers
FileSectionsUnfiltered(d) == [j \in 1..Len(d) |-> j]

FileSections(d) == SelectSeq([j \in 1..Len(d) |-> j], LAMBDA j : d[j] # EmptySeg)

\* aiService.ts:196  'diff --git' + section
FullSection(j) == <<Delim, Raw(j)>>

\* a test that never seals the current chunk
ExceedsNever(d, currentChunk, fullSection) == FALSE

\* aiService.ts:198  the test that seals the current chunk
Exceeds(d, currentChunk, fullSection) ==
    TextLen(d, currentChunk) + TextLen(d, fullSection) > MAX_DIFF_LENGTH

\* aiService.ts:204  currentChunk += (currentChunk ? '\n' : '') + fullSection
AppendSection(currentChunk, fullSection) ==
    currentChunk \o (IF currentChunk # <<>> THEN <<NL>> ELSE <<>>) \o fullSection

\* aiService.ts:199-201, 208-210  if (currentChunk) chunks.push(currentChunk)
PushChunk(cs, currentChunk) == IF currentChunk # <<>> THEN Append(cs, currentChunk) ELSE cs

\* aiService.ts:195-212  the loop over fileSections from position k on
RECURSIVE SplitLoop(_, _, _, _, _)
SplitLoop(d, fileSections, k, cs, currentChunk) ==
    IF k > Len(fileSections) THEN PushChunk(cs, currentChunk)
    ELSE LET fullSection == FullSection(fileSections[k])
         IN  IF Exceeds(d, currentChunk, fullSection)
             THEN SplitLoop(d, fileSections, k + 1, PushChunk(cs, currentChunk), fullSection)
             ELSE SplitLoop(d, fileSections, k + 1, cs,
                            AppendSection(currentChunk, fullSection))

splitDiffIntoChunks(d) == SplitLoop(d, FileSections(d), 1, <<>>, <<>>)

(***************************************************************************)
(* processDiff (aiService.ts:215-261)                                      *)
(***************************************************************************)
\* aiService.ts:247-248  a section replaced by its summary
Summarized(j) == <<SummaryOf(j), RepsOf(j), Truncated>>

SummarizedCounted(d, j) ==
    SummaryLen(d[j]) + JoinedLen(RepresentativeChanges(d[j])) + TRUNCATED_COUNTED

\* aiService.ts:250-251  a section copied
Verbatim(j) == <<NL, Delim, Raw(j)>>

VerbatimCounted(d, j) == SegLen(d[j]) + VERBATIM_COUNTED

\* aiService.ts:224-258  the loop over fileSections from segment j on
RECURSIVE ProcessLoop(_, _, _, _, _)
ProcessLoop(d, j, processedDiff, currentLength, maxLength) ==
    IF j > Len(d) THEN processedDiff
    ELSE IF IsBlank(d[j])
         THEN ProcessLoop(d, j + 1, processedDiff, currentLength, maxLength)
         ELSE LET summarize == currentLength + SegLen(d[j]) > maxLength
                  out == processedDiff \o (IF summarize THEN Summarized(j) ELSE Verbatim(j))
                  len == currentLength + (IF summarize THEN SummarizedCounted(d, j)
                                          ELSE VerbatimCounted(d, j))
              IN  IF len >= maxLength
                  THEN Append(out, Remaining)
                  ELSE ProcessLoop(d, j + 1, out, len, maxLength)

processDiff(d, maxLength) ==
    IF DiffLen(d) <= maxLength THEN DiffText(d)
    ELSE ProcessLoop(d, 1, <<>>, 0, maxLength)

(***************************************************************************)
(* The two functions applied to a diff.                                    *)
(***************************************************************************)
DiffIdle ==
    /\ diff = <<EmptySeg>>
    /\ chunks = <<>>
    /\ processed = <<>>
    /\ splitDone = FALSE
    /\ processDone = FALSE

InitDiff ==
    /\ diff \in Diffs
    /\ chunks = <<>>
    /\ processed = <<>>
    /\ splitDone = FALSE
    /\ processDone = FALSE

SplitDiffIntoChunks ==
    /\ ~splitDone
    /\ chunks' = splitDiffIntoChunks(diff)
    /\ splitDone' = TRUE
    /\ UNCHANGED <<diff, processed, processDone>>
    /\ UNCHANGED <<batchVars, pathVars, fmtVars, genVars, cliVars, raceVars>>

ProcessDiff ==
    /\ ~processDone
    /\ processed' = processDiff(diff, MAX_DIFF_LENGTH)
    /\ processDone' = TRUE
    /\ UNCHANGED <<diff, chunks, splitDone>>
    /\ UNCHANGED <<batchVars, pathVars, fmtVars, genVars, cliVars, raceVars>>

(***************************************************************************)
(* The completion requests of a generateCommitMessage call on diff: the    *)
(* exported function (aiService.ts:70-139), which chunks, and the method   *)
(* of AIService (aiService.ts:299-386), which CommitCommand.execute calls. *)
(* Each request is recorded with its kind and with the number of           *)
(* characters of diff text its prompt carries.                             *)
(***************************************************************************)
Request(kind, carried) == [kind |-> kind, carried |-> carried]

\* the segments of chunk.split('diff --git') after the first, empty one: a
\* section that is not the last of its chunk ends with the '\n' that joins it
\* to the next
RECURSIVE ChunkSegs(_, _)
ChunkSegs(d, chunk) ==
    IF chunk = <<>> THEN <<>>
    ELSE IF Head(chunk).t # "raw" THEN ChunkSegs(d, Tail(chunk))
    ELSE <<IF Len(chunk) > 1 /\ chunk[2].t = "nl"
           THEN d[Head(chunk).seg] \o <<Line("w", 0)>>
           ELSE d[Head(chunk).seg]>> \o ChunkSegs(d, Tail(chunk))

\* a chunk of d, as the diff it is when handed to processDiff
ChunkAsDiff(d, chunk) == <<EmptySeg>> \o ChunkSegs(d, chunk)

\* aiService.ts:84-92  chunkProcessor: processDiff(chunk), one completion
ChunkProcessor(d, chunk) ==
    LET cd == ChunkAsDiff(d, chunk)
    IN  Request("chunk", TextLen(cd, processDiff(cd, MAX_DIFF_LENGTH)))

\* aiService.ts:80-137  the requests of generateCommitMessage(diff) when the
\* provider answers each of them
FunctionRequests(d) ==
    IF DiffLen(d) > CHUNK_THRESHOLD
    THEN LET cs == splitDiffIntoChunks(d)
         IN  [k \in 1..Len(cs) |-> ChunkProcessor(d, cs[k])]
                 \o <<Request("synthesis", 0)>>
    ELSE <<Request("direct", TextLen(d, processDiff(d, MAX_DIFF_LENGTH)))>>

\* aiService.ts:342-350, 391-393, 421  the one request of
\* AIService.generateCommitMessage: its prompt ends with the whole diff
MethodRequests(d) == <<Request("direct", DiffLen(d))>>

PathIdle ==
    /\ entry = "none"
    /\ sent = <<>>

GenerateCommitMessageFunction ==
    /\ entry = "none"
    /\ entry' = "function"
    /\ sent' = FunctionRequests(diff)
    /\ UNCHANGED <<diffVars, batchVars, fmtVars, genVars, cliVars, raceVars>>

GenerateCommitMessageMethod ==
    /\ entry = "none"
    /\ entry' = "method"
    /\ sent' = MethodRequests(diff)
    /\ UNCHANGED <<diffVars, batchVars, fmtVars, genVars, cliVars, raceVars>>

NextDiff ==
    \/ SplitDiffIntoChunks
    \/ ProcessDiff
    \/ GenerateCommitMessageFunction
    \/ GenerateCommitMessageMethod



(***************************************************************************)
(* Messages and prompts are sequences of tokens: words, punctuation,       *)
(* spaces, newlines, and a few literals kept whole.                        *)
(***************************************************************************)
EMOJI == "<emoji>"
BREAKING_CHANGE == "BREAKING CHANGE"

\* white space, as String.prototype.trim sees it
IsSpace(t) == t \in {" ", "\n"}

\* the tokens that match /^\w+$/
IsWord(t) == t \in {"feat", "fix", "add", "api", "body", "x", "closes", "Refs", "refs"}

RECURSIVE TrimStart(_)
TrimStart(m) == IF m # <<>> /\ IsSpace(Head(m)) THEN TrimStart(Tail(m)) ELSE m

RECURSIVE TrimEnd(_)
TrimEnd(m) ==
    IF m # <<>> /\ IsSpace(m[Len(m)]) THEN TrimEnd(SubSeq(m, 1, Len(m) - 1)) ELSE m

\* message.trim()
Trim(m) == TrimEnd(TrimStart(m))

\* m.includes(sub)
Includes(m, sub) ==
    \E k \in 0..(Len(m) - Len(sub)) : SubSeq(m, k + 1, k + Len(sub)) = sub

Lower(t) ==
    CASE t = "JIRA-1"        -> "jira-1"
      [] t = BREAKING_CHANGE -> "breaking change"
      [] t = "Refs"          -> "refs"
      [] OTHER               -> t

\* m.toLowerCase()
ToLowerCase(m) == [k \in 1..Len(m) |-> Lower(m[k])]

\* aiService.ts:359  formattedMessage.replace(/^(\w+:)/, `$1(${options.scope})`)
AddScope(m, scope) ==
    IF Len(m) >= 2 /\ IsWord(m[1]) /\ m[2] = ":"
    THEN <<m[1], ":", "(", scope, ")">> \o SubSeq(m, 3, Len(m))
    ELSE m

\* the places where '\n\n' occurs in m
BlankLines(m) == {k \in 1..(Len(m) - 1) : m[k] = "\n" /\ m[k + 1] = "\n"}

\* aiService.ts:364  formattedMessage.replace('\n\n', '\n\nBREAKING CHANGE: ')
AddBreaking(m) ==
    IF BlankLines(m) = {} THEN m
    ELSE LET k == CHOOSE b \in BlankLines(m) : \A c \in BlankLines(m) : b <= c
         IN  SubSeq(m, 1, k + 1) \o <<BREAKING_CHANGE, ":", " ">>
                 \o SubSeq(m, k + 2, Len(m))

\* aiService.ts:369  formattedMessage += `\n\nRefs: ${options.ref}`
AddRef(m, ref) == m \o <<"\n", "\n", "Refs", ":", " ", ref>>

\* aiService.ts:355-370  the formatting of the provider's reply
Format(msg, o) ==
    LET trimmed == Trim(msg)
        scoped == IF o.scope # "" THEN AddScope(trimmed, o.scope) ELSE trimmed
        marked == IF o.breaking /\ ~Includes(scoped, <<BREAKING_CHANGE>>)
                  THEN AddBreaking(scoped) ELSE scoped
    IN  IF o.ref # "" /\ ~Includes(ToLowerCase(marked), ToLowerCase(<<o.ref>>))
        THEN AddRef(marked, o.ref) ELSE marked

\* aiService.ts:388-423  buildPrompt
BuildPrompt(o) ==
    IF o.customPrompt # ""
    THEN <<o.customPrompt, "\n\nGit diff:\n", o.diff>>
    ELSE <<"Generate a concise git commit message...">>
         \o (IF o.useType THEN <<"\nUse conventional commit format...">> ELSE <<>>)
         \o (IF o.scope # "" THEN <<"\nInclude the scope: (", o.scope, ")">> ELSE <<>>)
         \o (IF o.breaking THEN <<"\nThis is a BREAKING CHANGE...">> ELSE <<>>)
         \o (IF o.ref # "" THEN <<"\n Include a reference to ", o.ref, " in the footer.">>
             ELSE <<>>)
         \o (IF o.emoji THEN <<"\nInclude a relevant emoji at the start.">> ELSE <<>>)
         \o (IF o.multiline THEN <<"\nProvide a detailed description...">> ELSE <<>>)
         \o <<"\n\nGit diff:\n", o.diff>>

\* The requests of the model (types/index.ts:63-73); "" is an option left out
Options ==
    [diff : {"<diff>"}, multiline : BOOLEAN, useType : BOOLEAN, emoji : BOOLEAN,
     scope : {"", "api"}, breaking : BOOLEAN, ref : {"", "JIRA-1"},
     customPrompt : {"", "<custom prompt>"}]

\* The requests made in the model: the three options that only the prompt
\* reads are set together, and so are the three that the formatting reads
Requests ==
    {o \in Options : /\ o.useType = o.emoji /\ o.emoji = o.multiline
                     /\ o.breaking = (o.ref # "") /\ o.breaking = (o.scope # "")}

NoOptions ==
    [diff |-> "", multiline |-> FALSE, useType |-> FALSE, emoji |-> FALSE,
     scope |-> "", breaking |-> FALSE, ref |-> "", customPrompt |-> ""]

\* What the provider may answer
Drafts ==
    { <<"feat", ":", " ", "add">>,
      <<" ", "feat", ":", " ", "add", "\n", "\n", "body", "\n">>,
      <<"feat", "(", "api", ")", ":", " ", "add", "\n", "\n",
        BREAKING_CHANGE, ":", " ", "x">>,
      <<EMOJI, " ", "fix", ":", " ", "closes", " ", "jira-1">> }

NoMessage == <<"<nothing returned>">>

(***************************************************************************)
(* enforceCommitType (aiService.ts:162-188) and the three formatting rules *)
(* of AIService.generateCommitMessage (aiService.ts:357-370), as functions *)
(* of a message.                                                           *)
(***************************************************************************)
\* the tokens that match /^[a-z]+$/
IsLower(t) == t \in {"feat", "fix", "add", "api", "body", "x", "closes", "refs"}

\* the tokens that match /^[\u{1F300}-\u{1F9FF}]$/u
IsEmoji(t) == t = EMOJI

\* the first position from p on that holds no white space, Len(m) + 1 if none
RECURSIVE SkipSpace(_, _)
SkipSpace(m, p) == IF p <= Len(m) /\ IsSpace(m[p]) THEN SkipSpace(m, p + 1) ELSE p

\* aiService.ts:164-165  the scope parenthetical of a message that starts
\* with /^[a-z]+(?:\([^)]+\))?:/, <<>> if there is none
ScopeOf(m) ==
    IF Len(m) >= 2 /\ IsLower(m[1]) /\ m[2] = "("
    THEN LET closing == {k \in 3..Len(m) : m[k] = ")"}
         IN  IF closing = {} THEN <<>>
             ELSE LET k == CHOOSE c \in closing : \A c2 \in closing : c <= c2
                  IN  IF k >= 4 /\ k < Len(m) /\ m[k + 1] = ":"
                      THEN SubSeq(m, 2, k) ELSE <<>>
    ELSE <<>>

\* aiService.ts:168-174  the first match of /:\s*([\u{1F300}-\u{1F9FF}])/u
EmojiToKeep(m, emoji) ==
    IF emoji /\ \E c \in 1..Len(m) :
                   /\ m[c] = ":"
                   /\ SkipSpace(m, c + 1) <= Len(m)
                   /\ IsEmoji(m[SkipSpace(m, c + 1)])
    THEN <<EMOJI>> ELSE <<>>

\* `.` matches at p
Dot(m, p) == p <= Len(m) /\ m[p] # "\n"

\* the last position of the line that position p is on
RECURSIVE EndOfLine(_, _)
EndOfLine(m, p) == IF Dot(m, p + 1) THEN EndOfLine(m, p + 1) ELSE p

\* aiService.ts:177  where group 1 of /^[^:]+:\s*(?:[\u{1F300}-\u{1F9FF}]\s*)?(.+)/u
\* starts, 0 if the pattern does not match: \s* and the optional emoji are
\* greedy and give back what they took until (.+) finds a character
DescriptionStart(m) ==
    LET colons == {k \in 1..Len(m) : m[k] = ":"}
    IN  IF colons = {} THEN 0
        ELSE LET c == CHOOSE k \in colons : \A k2 \in colons : k <= k2
                 e == SkipSpace(m, c + 1)
                 withEmoji == IF e <= Len(m) /\ IsEmoji(m[e])
                              THEN {q \in (e + 1)..SkipSpace(m, e + 1) : Dot(m, q)}
                              ELSE {}
                 without == {q \in (c + 1)..e : Dot(m, q)}
             IN  IF c = 1 THEN 0
                 ELSE IF withEmoji # {}
                 THEN CHOOSE q \in withEmoji : \A q2 \in withEmoji : q >= q2
                 ELSE IF without # {}
                 THEN CHOOSE q \in without : \A q2 \in without : q >= q2
                 ELSE 0

\* aiService.ts:177-178  description
Description(m) ==
    IF DescriptionStart(m) = 0 THEN m
    ELSE SubSeq(m, DescriptionStart(m), EndOfLine(m, DescriptionStart(m)))

\* aiService.ts:162-188
enforceCommitType(m, type, emoji) ==
    <<type>> \o ScopeOf(m) \o <<":", " ">>
        \o (IF emoji /\ EmojiToKeep(m, emoji) # <<>>
            THEN EmojiToKeep(m, emoji) \o <<" ">> ELSE <<>>)
        \o Description(m)

\* aiService.ts:357-360  add scope if specified
ScopeRule(m, scope) == IF scope # "" THEN AddScope(m, scope) ELSE m

\* aiService.ts:362-365  add breaking change marker if needed
BreakingRuleUnguarded(m, breaking) == IF breaking THEN AddBreaking(m) ELSE m

BreakingRule(m, breaking) ==
    IF breaking /\ ~Includes(m, <<BREAKING_CHANGE>>) THEN AddBreaking(m) ELSE m

\* aiService.ts:367-370  add issue/PR reference if needed
RefRule(m, ref) ==
    IF ref # "" /\ ~Includes(ToLowerCase(m), ToLowerCase(<<ref>>))
    THEN AddRef(m, ref) ELSE m

\* The drafts the rules are applied to: type(scope): emoji subject, then
\* nothing, a body, or a body and a breaking-change footer
DraftParts ==
    [type : {"fix", "feat"},
     scope : {<<>>, <<"(", "api", ")">>},
     emoji : BOOLEAN,
     subject : {<<"add">>, <<"closes", " ", "jira-1">>},
     rest : {<<>>,
             <<"\n", "\n", "body">>,
             <<"\n", "\n", "body", "\n", "\n", BREAKING_CHANGE, ":", " ", "x">>}]

NoDraft == [type |-> "fix", scope |-> <<>>, emoji |-> FALSE, subject |-> <<"add">>,
            rest |-> <<>>]

\* the text of a draft
Msg(r) ==
    <<r.type>> \o r.scope \o <<":", " ">>
        \o (IF r.emoji THEN <<EMOJI, " ">> ELSE <<>>) \o r.subject \o r.rest

FmtIdle ==
    /\ fdraft = NoDraft
    /\ fmsg = Msg(NoDraft)
    /\ applied = <<>>

InitFmt ==
    /\ fdraft \in DraftParts
    /\ fmsg = Msg(fdraft)
    /\ applied = <<>>

\* aiService.ts:109-111, 134-136  message = enforceCommitType(message, type, emoji)
EnforceCommitType(type, emoji) ==
    /\ Len(applied) < MaxRules
    /\ fmsg' = enforceCommitType(fmsg, type, emoji)
    /\ applied' = Append(applied, IF emoji THEN "type, emoji" ELSE "type, no emoji")
    /\ UNCHANGED <<fdraft, batchVars, diffVars, pathVars, genVars, cliVars, raceVars>>

\* aiService.ts:357-360
ApplyScope(scope) ==
    /\ Len(applied) < MaxRules
    /\ fmsg' = ScopeRule(fmsg, scope)
    /\ applied' = Append(applied, "scope")
    /\ UNCHANGED <<fdraft, batchVars, diffVars, pathVars, genVars, cliVars, raceVars>>

\* aiService.ts:362-365
ApplyBreaking ==
    /\ Len(applied) < MaxRules
    /\ fmsg' = BreakingRule(fmsg, TRUE)
    /\ applied' = Append(applied, "breaking")
    /\ UNCHANGED <<fdraft, batchVars, diffVars, pathVars, genVars, cliVars, raceVars>>

\* aiService.ts:367-370
ApplyRef(ref) ==
    /\ Len(applied) < MaxRules
    /\ fmsg' = RefRule(fmsg, ref)
    /\ applied' = Append(applied, "ref")
    /\ UNCHANGED <<fdraft, batchVars, diffVars, pathVars, genVars, cliVars, raceVars>>

NextFmt ==
    \/ \E emoji \in BOOLEAN : EnforceCommitType("feat", emoji)
    \/ ApplyScope("api")
    \/ ApplyBreaking
    \/ ApplyRef("JIRA-1")

(***************************************************************************)
(* The persisted config and the service binding.                           *)
(***************************************************************************)
\* no config file
NoConfig ==
    [AI_PROVIDER |-> "", GEMINI_API_KEY |-> FALSE, OPENAI_API_KEY |-> FALSE,
     IS_FREE_ACCOUNT |-> FALSE, LAST_REQUEST_TIME |-> 0, MODEL |-> ""]

\* configCommand.ts:44  what ensureConfig accepts
ValidConfig(c) == c.AI_PROVIDER # "" /\ (c.GEMINI_API_KEY \/ c.OPENAI_API_KEY)

\* The config files of the model: the provider's API key, with or without a
\* recent request; the other provider's key only, on a free account with a
\* recent request; a provider the factory does not know; or no file.
ConfigFiles ==
    {c \in [AI_PROVIDER : {"gemini", "openai", "other"}, GEMINI_API_KEY : BOOLEAN,
            OPENAI_API_KEY : BOOLEAN, IS_FREE_ACCOUNT : BOOLEAN,
            LAST_REQUEST_TIME : {0, StartTime - TimeStep}, MODEL : {""}] :
        /\ c.GEMINI_API_KEY # c.OPENAI_API_KEY
        /\ c.AI_PROVIDER = "other" =>
              (c.GEMINI_API_KEY /\ ~c.IS_FREE_ACCOUNT /\ c.LAST_REQUEST_TIME = 0)
        /\ (c.AI_PROVIDER = "gemini" /\ ~c.GEMINI_API_KEY) =>
              (c.IS_FREE_ACCOUNT /\ c.LAST_REQUEST_TIME # 0)
        /\ (c.AI_PROVIDER = "openai" /\ ~c.OPENAI_API_KEY) =>
              (c.IS_FREE_ACCOUNT /\ c.LAST_REQUEST_TIME # 0)}
    \cup {NoConfig}

\* configCommand.ts:53-171  what setupInitialConfig writes
WizardConfigs ==
    {[AI_PROVIDER |-> p, GEMINI_API_KEY |-> (p = "gemini"),
      OPENAI_API_KEY |-> (p = "openai"), IS_FREE_ACCOUNT |-> f,
      LAST_REQUEST_TIME |-> 0,
      MODEL |-> IF p = "gemini" THEN "gemini-2.0-flash" ELSE "gpt-3.5-turbo"] :
        p \in {"gemini", "openai"}, f \in BOOLEAN}

\* configCommand.ts:38-51  ensureConfig: the configs it may return, each of
\* them also the file afterwards (the wizard writes what the user answers)
EnsureConfigAnew(file) == WizardConfigs

EnsureConfig(file) == IF ValidConfig(file) THEN {file} ELSE WizardConfigs

Environments ==
    {[GEMINI_API_KEY |-> FALSE, OPENAI_API_KEY |-> FALSE],
     [GEMINI_API_KEY |-> TRUE, OPENAI_API_KEY |-> FALSE]}

\* aiService.ts:264  service = null
NoService == [bound |-> FALSE, provider |-> "", initialized |-> FALSE, model |-> ""]

\* aiService.ts:281-283  apiKey = configKey || envKey
HasApiKey(c, e) ==
    IF c.AI_PROVIDER = "gemini"
    THEN c.GEMINI_API_KEY \/ e.GEMINI_API_KEY
    ELSE c.OPENAI_API_KEY \/ e.OPENAI_API_KEY

\* aiService.ts:289
ModelFor(c) ==
    IF c.MODEL # "" THEN c.MODEL
    ELSE IF c.AI_PROVIDER = "gemini" THEN "gemini-2.0-flash" ELSE "gpt-4.1-nano"

\* Error messages, as sequences of parts
FAILED_PREFIX == "Failed to generate commit message: "
RATE_LIMIT == <<"Rate limit exceeded. Please wait 1 minute between requests on free accounts.">>
UNSUPPORTED(p) == <<"Unsupported AI provider: ", p>>
NO_API_KEY(p) == <<"No API key found for ", p>>
INIT_FAILED == <<"<the provider's client could not be constructed>">>
NOT_INITIALIZED(p) ==
    IF p = "gemini" THEN <<"Gemini model not initialized">>
    ELSE <<"OpenAI client not initialized">>
API_ERROR(p) ==
    IF p = "gemini" THEN <<"Gemini API error: ", "<provider error>">>
    ELSE <<"OpenAI API error: ", "<provider error>">>
WRITE_FAILED == <<"Failed to write config file: ", "<fs error>">>

BindingErrors ==
    {UNSUPPORTED("other"), INIT_FAILED} \cup {NO_API_KEY(p) : p \in {"gemini", "openai"}}

\* aiService.ts:383-385  the catch of generateCommitMessage
Rethrow(err) == err

Wrap(err) == <<FAILED_PREFIX>> \o err

\* aiService.ts:273-297  initializeService on config c: the outcomes it may
\* have, each the service afterwards and the error thrown, <<>> if none (the
\* provider's client is built, or its constructor throws)
InitializeService(svc, c, e) ==
    LET created == [bound |-> TRUE, provider |-> c.AI_PROVIDER,
                    initialized |-> FALSE, model |-> ""]
    IN  IF c.AI_PROVIDER \notin {"gemini", "openai"}
        THEN {[service |-> svc, error |-> UNSUPPORTED(c.AI_PROVIDER)]}
        ELSE IF ~HasApiKey(c, e)
        THEN {[service |-> created, error |-> NO_API_KEY(c.AI_PROVIDER)]}
        ELSE {[service |-> created, error |-> INIT_FAILED],
              [service |-> [created EXCEPT !.initialized = TRUE, !.model = ModelFor(c)],
               error |-> <<>>]}

\* configCommand.ts:30-36  saveConfig: the errors it may throw, <<>> for none
SaveConfig(c) == {<<>>, WRITE_FAILED}

\* aiService.ts:314  1 minute rate limit
RATE_LIMIT_MS == 60000

\* aiService.ts:310-316  the fail-fast check
RateLimitedNever(c, t) == FALSE

RateLimited(c, t) == c.IS_FREE_ACCOUNT /\ t - c.LAST_REQUEST_TIME < RATE_LIMIT_MS

MaxGenTime == StartTime + MaxGenTicks * TimeStep

GenIdle ==
    /\ configFile = NoConfig
    /\ env = [GEMINI_API_KEY |-> FALSE, OPENAI_API_KEY |-> FALSE]
    /\ service = NoService
    /\ gpc = "idle"
    /\ gconfig = NoConfig
    /\ options = NoOptions
    /\ prompt = <<>>
    /\ reply = <<>>
    /\ message = NoMessage
    /\ thrown = <<>>
    /\ cause = <<>>
    /\ calls = 0
    /\ dispatched = FALSE
    /\ fileAtCall = NoConfig
    /\ calledAt = 0

InitGen ==
    /\ configFile \in ConfigFiles
    /\ env \in Environments
    /\ service = NoService
    /\ gpc = "idle"
    /\ gconfig = NoConfig
    /\ options = NoOptions
    /\ prompt = <<>>
    /\ reply = <<>>
    /\ message = NoMessage
    /\ thrown = <<>>
    /\ cause = <<>>
    /\ calls = 0
    /\ dispatched = FALSE
    /\ fileAtCall = NoConfig
    /\ calledAt = 0

\* aiService.ts:299-350: generateCommitMessage(o) up to its completion request.
\* The service is bound if it is not yet, the config is read, the rate limit
\* is checked, the prompt is built and sent; any error is caught and rethrown.
GenerateCommitMessage(o) ==
    /\ gpc # "awaiting"
    /\ calls < MaxCalls
    /\ \E c1 \in (IF service.bound THEN {configFile} ELSE EnsureConfig(configFile)) :
         \E bind \in (IF service.bound
                      THEN {[service |-> service, error |-> <<>>]}
                      ELSE InitializeService(service, c1, env)) :
             \E c2 \in (IF bind.error = <<>> THEN EnsureConfig(c1) ELSE {c1}) :
               LET err == IF bind.error # <<>> THEN bind.error
                          ELSE IF RateLimited(c2, now) THEN RATE_LIMIT
                          ELSE IF ~bind.service.initialized
                               THEN NOT_INITIALIZED(bind.service.provider)
                          ELSE <<>>
               IN  /\ service' = bind.service
                   /\ configFile' = c2
                   /\ gconfig' = IF bind.error = <<>> THEN c2 ELSE NoConfig
                   /\ cause' = err
                   /\ IF err # <<>>
                      THEN /\ gpc' = "failed"
                           /\ thrown' = Wrap(err)
                           /\ prompt' = <<>>
                           /\ dispatched' = FALSE
                      ELSE /\ gpc' = "awaiting"
                           /\ thrown' = <<>>
                           /\ prompt' = BuildPrompt(o)
                           /\ dispatched' = TRUE
    /\ options' = o
    /\ reply' = <<>>
    /\ message' = NoMessage
    /\ calls' = calls + 1
    /\ fileAtCall' = configFile
    /\ calledAt' = now
    /\ UNCHANGED <<env, batchVars, diffVars, pathVars, fmtVars, cliVars, raceVars>>

\* aiService.ts:350-385 (with geminiService.ts:28-35, openAIService.ts:29-55):
\* the provider answers r; the message is formatted, a free account's config
\* is stamped and saved, and the message is returned.
CompletionReturns(r) ==
    /\ gpc = "awaiting"
    /\ LET stamped == IF gconfig.IS_FREE_ACCOUNT
                      THEN [gconfig EXCEPT !.LAST_REQUEST_TIME = now] ELSE gconfig
       IN  \E err \in (IF gconfig.IS_FREE_ACCOUNT THEN SaveConfig(stamped) ELSE {<<>>}) :
             /\ reply' = r
             /\ gconfig' = stamped
             /\ cause' = err
             /\ IF err # <<>>
                THEN /\ gpc' = "failed"
                     /\ thrown' = Wrap(err)
                     /\ UNCHANGED <<message, configFile>>
                ELSE /\ gpc' = "returned"
                     /\ message' = Format(r, options)
                     /\ configFile' = stamped
                     /\ UNCHANGED thrown
    /\ UNCHANGED <<env, service, options, prompt, calls, dispatched, fileAtCall,
                   calledAt, batchVars, diffVars, pathVars, fmtVars, cliVars, raceVars>>

\* geminiService.ts:33-35, openAIService.ts:53-55, aiService.ts:383-385: the
\* completion request fails
CompletionFails ==
    /\ gpc = "awaiting"
    /\ gpc' = "failed"
    /\ cause' = API_ERROR(service.provider)
    /\ thrown' = Wrap(API_ERROR(service.provider))
    /\ UNCHANGED <<configFile, env, service, gconfig, options, prompt, reply,
                   message, calls, dispatched, fileAtCall, calledAt, batchVars,
                   diffVars, pathVars, fmtVars, cliVars, raceVars>>

\* configCommand.ts:306  a new AIService (every CommitCommand.execute makes one)
NewAIService ==
    /\ gpc # "awaiting"
    /\ calls < MaxCalls
    /\ service.bound
    /\ service' = NoService
    /\ UNCHANGED <<configFile, env, gpc, gconfig, options, prompt, reply, message,
                   thrown, cause, calls, dispatched, fileAtCall, calledAt,
                   batchVars, diffVars, pathVars, fmtVars, cliVars, raceVars>>

\* Time passes, between calls and while a completion request is out; only the
\* calls of a free account read the clock (aiService.ts:311, 374)
GenTick ==
    /\ now < MaxGenTime
    /\ calls < MaxCalls \/ gpc = "awaiting"
    /\ IF gpc = "awaiting" THEN gconfig.IS_FREE_ACCOUNT
       ELSE configFile.IS_FREE_ACCOUNT \/ ~ValidConfig(configFile)
    /\ now' = now + TimeStep
    /\ UNCHANGED <<genVars, batchRest, diffVars, pathVars, fmtVars, cliVars, raceVars>>

NextGen ==
    \/ \E o \in Requests : GenerateCommitMessage(o)
    \/ \E r \in Drafts : CompletionReturns(r)
    \/ CompletionFails
    \/ NewAIService
    \/ GenTick

(***************************************************************************)
(* The command line: ConfigCommand.setModel (configCommand.ts:194-207) and *)
(* CommitCommand.execute (configCommand.ts:299-377).                       *)
(***************************************************************************)
\* types/index.ts:75-85
OPENAI_MODELS == {"gpt-4", "gpt-4-turbo-preview", "gpt-3.5-turbo", "gpt-3.5-turbo-16k"}

GEMINI_MODELS == {"gemini-2.0-flash", "gemini-2.0-flash-vision"}

\* README, Features: the models it lists for each provider
README_MODELS(provider) ==
    IF provider = "gemini" THEN {"gemini-2.0-flash", "gemini-2.0-flash-vision"}
    ELSE {"gpt-4", "gpt-4-turbo-preview", "gpt-4.1-nano", "gpt-4.1-nano-16k"}

\* the models given on the command line
Models == OPENAI_MODELS \cup GEMINI_MODELS \cup README_MODELS("openai")

\* configCommand.ts:262-269  getDefaultConfig
DefaultConfig ==
    [AI_PROVIDER |-> "gemini", GEMINI_API_KEY |-> FALSE, OPENAI_API_KEY |-> FALSE,
     IS_FREE_ACCOUNT |-> TRUE, LAST_REQUEST_TIME |-> 0, MODEL |-> "gemini-2.0-flash"]

\* configCommand.ts:195  this.readConfig() || this.getDefaultConfig()
ReadConfigOrDefault(file) == IF file = NoConfig THEN DefaultConfig ELSE file

\* configCommand.ts:196  validModels
ValidModels(c) == IF c.AI_PROVIDER = "gemini" THEN GEMINI_MODELS ELSE OPENAI_MODELS

\* The config files of the command line: what the wizard writes, with or
\* without a MODEL, or no file
CliConfigs ==
    WizardConfigs \cup {[w EXCEPT !.MODEL = ""] : w \in WizardConfigs} \cup {NoConfig}

\* types/index.ts:41-56  the CommitOptions that execute branches on, and the
\* model override
CommitOptions ==
    [dryRun : BOOLEAN, revert : BOOLEAN, push : BOOLEAN, amend : BOOLEAN,
     model : {"", "gpt-4", "gemini-2.0-flash"}]

NoCommitOptions ==
    [dryRun |-> FALSE, revert |-> FALSE, push |-> FALSE, amend |-> FALSE, model |-> ""]

\* git commands run one after the other until one fails: the commands run
\* (the failing one included) and whether all succeeded
Failing(r) == IF r.ok THEN "" ELSE r.run[Len(r.run)]

RunGit(cmds) ==
    {[run |-> cmds, ok |-> TRUE]}
        \cup {[run |-> SubSeq(cmds, 1, k), ok |-> FALSE] : k \in 1..Len(cmds)}

\* configCommand.ts:455-464  revertLastCommit(push)
RevertLastCommit(push) ==
    <<"git revert HEAD --no-edit">> \o (IF push THEN <<"git push">> ELSE <<>>)

\* the push before the commit
PushAndCommit(o) ==
    (IF o.push THEN <<IF o.amend THEN "git push --force" ELSE "git push">> ELSE <<>>)
        \o <<IF o.amend THEN "git commit --amend" ELSE "git commit">>

\* configCommand.ts:359-371  createCommit or amendCommit, then pushChanges
CommitAndPush(o) ==
    <<IF o.amend THEN "git commit --amend" ELSE "git commit">>
        \o (IF o.push THEN <<IF o.amend THEN "git push --force" ELSE "git push">>
            ELSE <<>>)

CliIdle ==
    /\ cfile = NoConfig
    /\ copts = NoCommitOptions
    /\ cpc = "idle"
    /\ git = <<>>
    /\ gitFailed = ""
    /\ asked = FALSE
    /\ shown = FALSE
    /\ requestModel = ""
    /\ setArg = ""
    /\ setResult = "none"
    /\ cfileAtSet = NoConfig

InitCli ==
    /\ cfile \in CliConfigs
    /\ copts = NoCommitOptions
    /\ cpc = "idle"
    /\ git = <<>>
    /\ gitFailed = ""
    /\ asked = FALSE
    /\ shown = FALSE
    /\ requestModel = ""
    /\ setArg = ""
    /\ setResult = "none"
    /\ cfileAtSet = NoConfig

\* configCommand.ts:194-207  setModel(model), in a command line invocation of
\* its own (index.ts:134): the variables of execute describe this invocation
SetModel(model) ==
    /\ cpc \in {"idle", "done", "failed"}
    /\ copts' = NoCommitOptions
    /\ cpc' = "idle"
    /\ git' = <<>>
    /\ gitFailed' = ""
    /\ asked' = FALSE
    /\ shown' = FALSE
    /\ requestModel' = ""
    /\ setArg' = model
    /\ cfileAtSet' = ReadConfigOrDefault(cfile)
    /\ IF model \notin ValidModels(ReadConfigOrDefault(cfile))
       THEN /\ setResult' = "invalid model"
            /\ UNCHANGED cfile
       ELSE \E err \in SaveConfig([ReadConfigOrDefault(cfile) EXCEPT !.MODEL = model]) :
               IF err # <<>>
               THEN /\ setResult' = "write failed"
                    /\ UNCHANGED cfile
               ELSE /\ setResult' = "ok"
                    /\ cfile' = [ReadConfigOrDefault(cfile) EXCEPT !.MODEL = model]
    /\ UNCHANGED <<batchVars, diffVars, pathVars, fmtVars, genVars, raceVars>>

\* configCommand.ts:299-323  execute(o) up to the call of generateCommitMessage:
\* a revert is handled first; else the staged diff is read, and the call
\* fails unless git gives changes (staged is "changes", "empty" or "error").
\* The command line has made sure that a config exists (index.ts:16).
Execute(o, staged) ==
    /\ cpc \in {"idle", "done", "failed"}
    /\ ValidConfig(cfile)
    /\ copts' = o
    /\ asked' = FALSE
    /\ shown' = FALSE
    /\ requestModel' = ""
    /\ setArg' = ""
    /\ setResult' = "none"
    /\ cfileAtSet' = NoConfig
    /\ IF o.revert
       THEN \E r \in RunGit(RevertLastCommit(o.push)) :
               /\ git' = r.run
               /\ gitFailed' = Failing(r)
               /\ cpc' = IF r.ok THEN "done" ELSE "failed"
       ELSE /\ git' = <<"git diff --staged">>
            /\ gitFailed' = IF staged = "error" THEN "git diff --staged" ELSE ""
            /\ cpc' = IF staged = "changes" THEN "generating" ELSE "failed"
    /\ UNCHANGED cfile
    /\ UNCHANGED <<batchVars, diffVars, pathVars, fmtVars, genVars, raceVars>>

\* configCommand.ts:325-345 with aiService.ts:273-386  generateCommitMessage
\* is called without the model override; the service it binds is given the
\* model of the config. It fails before its completion request, or the
\* request fails, or a message comes back: a dry run displays it and returns,
\* else the user is asked.
GenerateMessage(result) ==
    /\ cpc = "generating"
    /\ requestModel' = IF result = "no request" THEN "" ELSE ModelFor(cfile)
    /\ IF result # "message"
       THEN /\ cpc' = "failed"
            /\ UNCHANGED <<cfile, asked, shown>>
       ELSE /\ cfile' = IF cfile.IS_FREE_ACCOUNT
                        THEN [cfile EXCEPT !.LAST_REQUEST_TIME = now] ELSE cfile
            /\ cpc' = IF copts.dryRun THEN "done" ELSE "confirming"
            /\ shown' = copts.dryRun
            /\ asked' = ~copts.dryRun
    /\ UNCHANGED <<copts, git, gitFailed, setArg, setResult, cfileAtSet>>
    /\ UNCHANGED <<batchVars, diffVars, pathVars, fmtVars, genVars, raceVars>>

\* configCommand.ts:347-373  the user's answer, then the commit and the push
ConfirmCommit(action) ==
    /\ cpc = "confirming"
    /\ IF action = "cancel"
       THEN /\ cpc' = "done"
            /\ UNCHANGED <<git, gitFailed>>
       ELSE \E r \in RunGit(CommitAndPush(copts)) :
               /\ git' = git \o r.run
               /\ gitFailed' = Failing(r)
               /\ cpc' = IF r.ok THEN "done" ELSE "failed"
    /\ UNCHANGED <<cfile, copts, asked, shown, requestModel, setArg, setResult,
                   cfileAtSet>>
    /\ UNCHANGED <<batchVars, diffVars, pathVars, fmtVars, genVars, raceVars>>

NextCli ==
    \/ \E model \in Models : SetModel(model)
    \/ \E o \in CommitOptions : \E staged \in {"changes", "empty", "error"} :
          Execute(o, staged)
    \/ \E result \in {"no request", "request failed", "message"} : GenerateMessage(result)
    \/ \E action \in {"proceed", "edit", "cancel"} : ConfirmCommit(action)

(***************************************************************************)
(* Calls of AIService.generateCommitMessage (aiService.ts:299-386) by two  *)
(* processes that share the persisted config. The config is valid and the  *)
(* service of each instance binds, so a call is its rate check, its        *)
(* completion request and the save of the stamped config.                  *)
(***************************************************************************)
Procs == {1, 2}

RaceConfigs ==
    [IS_FREE_ACCOUNT : BOOLEAN, LAST_REQUEST_TIME : {0, StartTime - TimeStep}]

RaceIdle ==
    /\ rfile = [IS_FREE_ACCOUNT |-> FALSE, LAST_REQUEST_TIME |-> 0]
    /\ rpc = [p \in Procs |-> "idle"]
    /\ rconf = [p \in Procs |-> [IS_FREE_ACCOUNT |-> FALSE, LAST_REQUEST_TIME |-> 0]]
    /\ rcur = [p \in Procs |-> 0]
    /\ rlog = <<>>

InitRace ==
    /\ rfile \in RaceConfigs
    /\ rpc = [p \in Procs |-> "idle"]
    /\ rconf = [p \in Procs |-> [IS_FREE_ACCOUNT |-> FALSE, LAST_REQUEST_TIME |-> 0]]
    /\ rcur = [p \in Procs |-> 0]
    /\ rlog = <<>>

\* aiService.ts:308-350  process p calls: the config is read from the file,
\* the call is rejected by the rate check or its completion request goes out
RaceCall(p) ==
    /\ rpc[p] # "awaiting"
    /\ Len(rlog) < MaxDispatches
    /\ rconf' = [rconf EXCEPT ![p] = rfile]
    /\ IF RateLimited(rfile, now)
       THEN /\ rpc' = [rpc EXCEPT ![p] = "rejected"]
            /\ rcur' = [rcur EXCEPT ![p] = 0]
            /\ UNCHANGED rlog
       ELSE /\ rpc' = [rpc EXCEPT ![p] = "awaiting"]
            /\ rcur' = [rcur EXCEPT ![p] = Len(rlog) + 1]
            /\ rlog' = Append(rlog, [proc |-> p, at |-> now, result |-> "pending",
                                     overlap |-> \E q \in Procs : rpc[q] = "awaiting"])
    /\ UNCHANGED <<rfile, batchVars, diffVars, pathVars, fmtVars, genVars, cliVars>>

\* aiService.ts:350-381  the provider answers p: on a free account the config
\* p read is stamped with the time and written back whole
RaceReturns(p) ==
    /\ rpc[p] = "awaiting"
    /\ LET stamped == [rconf[p] EXCEPT !.LAST_REQUEST_TIME = now]
       IN  \E err \in (IF rconf[p].IS_FREE_ACCOUNT THEN SaveConfig(stamped) ELSE {<<>>}) :
              /\ rconf' = [rconf EXCEPT ![p] = IF rconf[p].IS_FREE_ACCOUNT
                                               THEN stamped ELSE rconf[p]]
              /\ rfile' = IF rconf[p].IS_FREE_ACCOUNT /\ err = <<>> THEN stamped ELSE rfile
              /\ rpc' = [rpc EXCEPT ![p] = IF err = <<>> THEN "returned" ELSE "failed"]
              /\ rlog' = [rlog EXCEPT ![rcur[p]].result =
                             IF err = <<>> THEN "ok" ELSE "save failed"]
    /\ UNCHANGED <<rcur, batchVars, diffVars, pathVars, fmtVars, genVars, cliVars>>

\* aiService.ts:350, 383-385  the completion request of p fails
RaceFails(p) ==
    /\ rpc[p] = "awaiting"
    /\ rpc' = [rpc EXCEPT ![p] = "failed"]
    /\ rlog' = [rlog EXCEPT ![rcur[p]].result = "request failed"]
    /\ UNCHANGED <<rfile, rconf, rcur, batchVars, diffVars, pathVars, fmtVars,
                   genVars, cliVars>>

\* Time passes
RaceTick ==
    /\ now < MaxGenTime
    /\ Len(rlog) < MaxDispatches \/ \E p \in Procs : rpc[p] = "awaiting"
    /\ now' = now + TimeStep
    /\ UNCHANGED <<raceVars, batchRest, diffVars, pathVars, fmtVars, genVars, cliVars>>

NextRace ==
    \/ \E p \in Procs : RaceCall(p)
    \/ \E p \in Procs : RaceReturns(p)
    \/ \E p \in Procs : RaceFails(p)
    \/ RaceTick

\* batchProcess, with nothing else going on
Init == InitBatch /\ DiffIdle /\ PathIdle /\ FmtIdle /\ GenIdle /\ CliIdle /\ RaceIdle

Next == NextBatch

Spec == Init /\ [][Next]_vars

\* splitDiffIntoChunks and processDiff, with nothing else going on
InitDiffOnly == InitDiff /\ PathIdle /\ BatchIdle /\ FmtIdle /\ GenIdle /\ CliIdle /\ RaceIdle

SpecDiff == InitDiffOnly /\ [][NextDiff]_vars

\* AIService.generateCommitMessage, with nothing else going on
InitGenOnly == InitGen /\ BatchIdle /\ DiffIdle /\ PathIdle /\ FmtIdle /\ CliIdle /\ RaceIdle

SpecGen == InitGenOnly /\ [][NextGen]_vars

\* enforceCommitType and the formatting rules, with nothing else going on
InitFmtOnly == InitFmt /\ BatchIdle /\ DiffIdle /\ PathIdle /\ GenIdle /\ CliIdle /\ RaceIdle

SpecFmt == InitFmtOnly /\ [][NextFmt]_vars

\* the command line, with nothing else going on
InitCliOnly ==
    InitCli /\ BatchIdle /\ DiffIdle /\ PathIdle /\ FmtIdle /\ GenIdle /\ RaceIdle

SpecCli == InitCliOnly /\ [][NextCli]_vars

\* two processes calling generateCommitMessage, with nothing else going on
InitRaceOnly ==
    InitRace /\ BatchIdle /\ DiffIdle /\ PathIdle /\ FmtIdle /\ GenIdle /\ CliIdle

SpecRace == InitRaceOnly /\ [][NextRace]_vars

(***************************************************************************)
(* Properties of batchProcess and rateLimiter (checked under Spec).        *)
(***************************************************************************)
Failed == {k \in 1..items : outcome[k] = "fail"}

Emptied == {k \in 1..items : outcome[k] = "empty"}

Succeeded == {k \in 1..items : outcome[k] = "ok"}

\* C1 (as stated): the returned list has exactly N - F entries, F the number of
\* items whose processor invocation rejected, whatever the succeeding
\* invocations returned (the empty string included).
C1_LengthIsNMinusFailed ==
    pc = "done" => Len(returned) = items - Cardinality(Failed)

\* C1 (amended): the returned list has exactly N - F - E entries, E the number
\* of succeeding invocations that returned the empty string.
C1_LengthIsNMinusFailedMinusEmpty ==
    pc = "done" => Len(returned) = items - Cardinality(Failed) - Cardinality(Emptied)

C1_Witness ==
    /\ pc = "done"
    /\ Failed # {}
    /\ Emptied # {}
    /\ Len(returned) >= 2

\* The items whose output is kept, in input order
KeptInOrder == SelectSeq([k \in 1..items |-> k], LAMBDA k : outcome[k] = "ok")

\* C2: batchProcess returns the outputs of the successfully processed items in
\* the relative order of their items in the input, for both window sizes, every
\* failing subset and every order in which the invocations of a window settle.
C2_OrderPreserved ==
    pc = "done" => returned = [j \in 1..Len(KeptInOrder) |-> Output(KeptInOrder[j])]

C2_Witness ==
    /\ pc = "done"
    /\ items > MAX_CONCURRENT_REQUESTS(config)
    /\ \E f \in Failed : \E a, b \in Succeeded : a < f /\ f < b
    /\ Len(returned) >= 3

\* C3: under a free account every rateLimiter call returns at least
\* FREE_ACCOUNT_COOLDOWN after the previous call on the same config returned.
C3_ReturnsSpacedByCooldown ==
    (config.IS_FREE_ACCOUNT /\ prevReturn # -1)
        => lastReturn - prevReturn >= FREE_ACCOUNT_COOLDOWN

(***************************************************************************)
(* Properties of splitDiffIntoChunks and processDiff (checked under        *)
(* SpecDiff).                                                              *)
(***************************************************************************)
RECURSIVE Concat(_)
Concat(texts) == IF texts = <<>> THEN <<>> ELSE Head(texts) \o Concat(Tail(texts))

\* a text without the newlines that separate the sections of a chunk
WithoutSeparators(text) == SelectSeq(text, LAMBDA p : p.t # "nl")

\* a text without the segments that are the empty string
WithoutEmpty(d, text) == SelectSeq(text, LAMBDA p : ~(p.t = "raw" /\ d[p.seg] = EmptySeg))

\* the number of file sections in a chunk
SectionsIn(chunk) == Len(SelectSeq(chunk, LAMBDA p : p.t = "raw"))

\* C4: the chunks, concatenated in order, are the diff's sections exactly: each
\* once, in order, unaltered, none dropped, the text before the first
\* 'diff --git' included.
C4_ChunksReproduceDiff ==
    splitDone => WithoutSeparators(Concat(chunks)) = WithoutEmpty(diff, DiffText(diff))

\* C5: a chunk of two or more file sections is at most MAX_DIFF_LENGTH long,
\* the newlines between its sections counted.
C5_MultiSectionChunkWithinLimit ==
    splitDone => \A c \in 1..Len(chunks) :
                    SectionsIn(chunks[c]) >= 2 => TextLen(diff, chunks[c]) <= MAX_DIFF_LENGTH

\* C6 (as stated): the chunk list is non-empty for every non-empty diff and
\* empty only for the empty diff; no chunk is the empty string.
C6_NonEmptyDiffGivesChunks ==
    splitDone =>
        /\ (chunks = <<>>) <=> (DiffLen(diff) = 0)
        /\ \A c \in 1..Len(chunks) : TextLen(diff, chunks[c]) > 0

\* the diff is zero or more delimiters and nothing else
OnlyDelimiters(d) == \A j \in 1..Len(d) : d[j] = EmptySeg

\* C6 (amended): the chunk list is empty exactly for a diff made of zero or
\* more 'diff --git' delimiters and nothing else, non-empty for every other
\* diff; no chunk is the empty string.
C6_ChunksUnlessOnlyDelimiters ==
    splitDone =>
        /\ (chunks = <<>>) <=> OnlyDelimiters(diff)
        /\ \A c \in 1..Len(chunks) : TextLen(diff, chunks[c]) > 0

C6_Witness ==
    /\ splitDone
    /\ Len(chunks) >= 2
    /\ \E j \in 2..Len(diff) : diff[j] = EmptySeg

\* what a summary block adds besides the changed lines it quotes: its header,
\* its counts line and the truncation marker
SummaryOverhead(seg) == SummaryLen(seg) + TRUNCATED_LEN

MaxOverhead(d) ==
    LET all == {SummaryOverhead(d[j]) : j \in 1..Len(d)}
    IN  CHOOSE m \in all : \A o \in all : o <= m

\* C7: a diff longer than maxLength is returned no longer than maxLength plus
\* the overhead of one section's summary block, however long its added and
\* removed lines are; a diff of at most maxLength is returned as it is. (The
\* bound here also allows the closing marker and one character per section.)
C7_ProcessedLengthBounded ==
    processDone =>
        IF DiffLen(diff) > MAX_DIFF_LENGTH
        THEN TextLen(diff, processed)
                <= MAX_DIFF_LENGTH + MaxOverhead(diff) + REMAINING_LEN + Len(diff)
        ELSE processed = DiffText(diff)

(***************************************************************************)
(* Claims about AIService.generateCommitMessage, under SpecGen.            *)
(***************************************************************************)
\* a call has been made
Called == calls > 0

\* the call found a free account whose last request was less than 60,000 ms ago
RecentFreeAtCall ==
    /\ Called
    /\ fileAtCall.IS_FREE_ACCOUNT
    /\ calledAt - fileAtCall.LAST_REQUEST_TIME < 60000

\* the call found a config of an account that is not free
UnconstrainedAtCall == Called /\ ValidConfig(fileAtCall) /\ ~fileAtCall.IS_FREE_ACCOUNT

C9_FailuresAreWrapped ==
    /\ cause # <<>> =>
          /\ gpc = "failed"
          /\ thrown = <<FAILED_PREFIX>> \o cause
          /\ message = NoMessage
    /\ gpc = "failed" => cause # <<>>
    /\ gpc \in {"awaiting", "returned"} => thrown = <<>>
    /\ gpc = "returned" <=> message # NoMessage

\* the provider answered, and the save of the stamped config failed
C9_Witness ==
    /\ gpc = "failed"
    /\ cause = WRITE_FAILED
    /\ reply \in Drafts
    /\ thrown = <<FAILED_PREFIX>> \o WRITE_FAILED

\* the requests that differ from o at most in useType, emoji, scope, breaking,
\* ref and multiline
SameButFormatting(o) ==
    {o2 \in Options : o2.customPrompt = o.customPrompt /\ o2.diff = o.diff}

\* C10: with a custom prompt, neither the prompt sent to the provider nor the
\* message returned for a given reply depends on useType, emoji, scope,
\* breaking, ref or multiline.
C10_CustomPromptIgnoresFormatting ==
    (gpc = "returned" /\ options.customPrompt # "") =>
        \A o2 \in SameButFormatting(options) :
            /\ BuildPrompt(o2) = prompt
            /\ Format(reply, o2) = message

\* The part of C10 about the prompt alone
C10_CustomPromptIsWholePrompt ==
    (dispatched /\ options.customPrompt # "") =>
        \A o2 \in SameButFormatting(options) : BuildPrompt(o2) = prompt


(***************************************************************************)
(* Claims about the path generateCommitMessage takes, under SpecDiff.      *)
(***************************************************************************)
\* C11: a diff of at most 50,000 characters takes the direct path, with one
\* completion request and no chunking; a longer diff is chunked, with one
\* summarization request per chunk and then one synthesis request, and no
\* request carries more than 15,000 characters of diff.
C11_PathSelectedByLength ==
    entry # "none" =>
        IF DiffLen(diff) <= 50000
        THEN Len(sent) = 1 /\ sent[1].kind = "direct"
        ELSE /\ Len(sent) = Len(splitDiffIntoChunks(diff)) + 1
             /\ \A k \in 1..(Len(sent) - 1) : sent[k].kind = "chunk"
             /\ sent[Len(sent)].kind = "synthesis"
             /\ \A k \in 1..Len(sent) : sent[k].carried <= 15000

\* The part of C11 that holds of both: a diff of at most 50,000 characters
\* takes the direct path
C11_ShortDiffIsDirect ==
    (entry # "none" /\ DiffLen(diff) <= 50000) =>
        Len(sent) = 1 /\ sent[1].kind = "direct"


(***************************************************************************)
(* Claims about enforceCommitType and the formatting rules, under SpecFmt. *)
(***************************************************************************)
\* the draft with its type forced to "feat" and its emoji kept only if wanted
Retyped(r, emoji) == [r EXCEPT !.type = "feat", !.emoji = r.emoji /\ emoji]

\* C12: enforceCommitType gives the enforced type, the draft's scope
\* parenthetical if any, ': ', the draft's emoji if and only if emoji is
\* enabled, and then all the remaining text of the draft, body and footer
\* lines included.
C12_EnforcedTypeKeepsTheRest ==
    /\ applied = <<"type, emoji">> => fmsg = Msg(Retyped(fdraft, TRUE))
    /\ applied = <<"type, no emoji">> => fmsg = Msg(Retyped(fdraft, FALSE))

\* The part of C12 that holds: a draft of one line
C12_EnforcedTypeKeepsTheSubject ==
    fdraft.rest = <<>> =>
        /\ applied = <<"type, emoji">> => fmsg = Msg(Retyped(fdraft, TRUE))
        /\ applied = <<"type, no emoji">> => fmsg = Msg(Retyped(fdraft, FALSE))

\* the number of 'BREAKING CHANGE' in m
Markers(m) == Len(SelectSeq(m, LAMBDA t : t = BREAKING_CHANGE))

\* C13: the breaking-change rule leaves a message that contains
\* 'BREAKING CHANGE' as it is, applying it twice gives what applying it once
\* gives, and however often the rules are applied at most one marker is
\* inserted.
C13_BreakingRuleIdempotent ==
    /\ Includes(fmsg, <<BREAKING_CHANGE>>) => BreakingRule(fmsg, TRUE) = fmsg
    /\ BreakingRule(BreakingRule(fmsg, TRUE), TRUE) = BreakingRule(fmsg, TRUE)
    /\ Markers(fmsg) <= Markers(Msg(fdraft)) + 1
    /\ Markers(Msg(fdraft)) > 0 => Markers(fmsg) <= Markers(Msg(fdraft))

\* the rule has been applied twice to a draft with a body and no marker: the
\* first application inserted the marker, the second changed nothing
C13_Witness ==
    /\ applied = <<"breaking", "breaking">>
    /\ Markers(Msg(fdraft)) = 0
    /\ Markers(fmsg) = 1
    /\ fmsg = BreakingRule(Msg(fdraft), TRUE)

\* the draft with the scope "api" after its type, if it has no scope
Scoped(r) ==
    IF r.scope # <<>> THEN Msg(r)
    ELSE <<r.type, ":", "(", "api", ")", " ">>
             \o (IF r.emoji THEN <<EMOJI, " ">> ELSE <<>>) \o r.subject \o r.rest

\* C14: the scope rule inserts '(scope)' after the leading 'type:' only if no
\* scope parenthetical is there already, so applying it once or twice gives
\* the draft with one scope parenthetical.
C14_ScopeInsertedAtMostOnce ==
    (applied # <<>> /\ \A k \in 1..Len(applied) : applied[k] = "scope") =>
        fmsg = Scoped(fdraft)

\* The part of C14 that holds: one application
C14_ScopeInsertedOnce ==
    applied = <<"scope">> => fmsg = Scoped(fdraft)


(***************************************************************************)
(* Claims about the command line, under SpecCli.                           *)
(***************************************************************************)
\* C15: when the request carries a model override, the completion request
\* of the call is made with that model.
C15_OverrideIsTheRequestModel ==
    (copts.model # "" /\ requestModel # "") => requestModel = copts.model

\* C16: setModel(M) with a model M that the README lists for the active
\* provider succeeds, persists MODEL = M and changes no other field.
C16_ReadmeModelsAccepted ==
    (setResult # "none" /\ setArg \in README_MODELS(cfileAtSet.AI_PROVIDER)) =>
        /\ setResult # "invalid model"
        /\ setResult = "ok" => cfile = [cfileAtSet EXCEPT !.MODEL = setArg]

\* The part of C16 that holds: the models of OPENAI_MODELS / GEMINI_MODELS
C16_ListedModelsAccepted ==
    (setResult # "none" /\ setArg \in ValidModels(cfileAtSet)) =>
        /\ setResult # "invalid model"
        /\ setResult = "ok" => cfile = [cfileAtSet EXCEPT !.MODEL = setArg]

\* the git commands that commit or push
Changing == {"git commit", "git commit --amend", "git push", "git push --force"}

\* C17: with dryRun set, execute never runs git commit, git commit --amend or
\* git push, and never asks the user for confirmation.
C17_DryRunChangesNothing ==
    copts.dryRun =>
        /\ \A k \in 1..Len(git) : git[k] \notin Changing
        /\ ~asked

\* The part of C17 that holds: a dry run that is not a revert
C17_DryRunWithoutRevert ==
    (copts.dryRun /\ ~copts.revert) =>
        /\ \A k \in 1..Len(git) : git[k] = "git diff --staged"
        /\ ~asked
        /\ cpc = "done" => shown


(***************************************************************************)
(* Scenarios of splitDiffIntoChunks, under SpecDiff.                       *)
(***************************************************************************)
\* the segments of a diff that are not the empty string
NonEmptySegs(d) == SelectSeq(d, LAMBDA seg : seg # EmptySeg)

\* a diff of 60,000 characters made of 3 file sections of 20,000 characters
\* each, the delimiter counted
ThreeLargeSections(d) ==
    /\ DiffLen(d) = 60000
    /\ Len(NonEmptySegs(d)) = 3
    /\ \A j \in 1..Len(d) : d[j] # EmptySeg => SegLen(d[j]) + DELIM_LEN = 20000

\* C18: a 60,000-character diff of 3 file sections of 20,000 characters each
\* gives at least 4 chunks (maximum chunk length 15,000).
C18_AtLeastFourChunks ==
    (splitDone /\ ThreeLargeSections(diff)) => Len(chunks) >= 4

\* C18 (amended): such a diff gives exactly 3 chunks, one per file section in
\* order, each 'diff --git' and the section (20,000 characters, over the
\* maximum).
C18_OneChunkPerLargeSection ==
    (splitDone /\ ThreeLargeSections(diff)) =>
        /\ Len(chunks) = 3
        /\ \A c \in 1..3 :
              /\ chunks[c] = <<Delim, Raw(FileSections(diff)[c])>>
              /\ TextLen(diff, chunks[c]) = 20000

C18_Witness ==
    /\ splitDone
    /\ ThreeLargeSections(diff)
    /\ Len(chunks) = 3
    /\ MAX_DIFF_LENGTH = 15000

\* a diff of exactly one section: 'diff --git' and a section, or a text with
\* no delimiter in it
OneSection(d) ==
    \/ Len(d) = 1 /\ d[1] # EmptySeg
    \/ Len(d) = 2 /\ d[1] = EmptySeg /\ d[2] # EmptySeg

\* C19: a diff of exactly one section within the limit gives exactly one
\* chunk, identical to the input text, whether the diff starts with the
\* 'diff --git' delimiter or contains no delimiter at all.
C19_SingleSectionChunkIsInput ==
    (splitDone /\ OneSection(diff) /\ DiffLen(diff) <= MAX_DIFF_LENGTH) =>
        /\ Len(chunks) = 1
        /\ chunks[1] = WithoutEmpty(diff, DiffText(diff))

\* The part of C19 that holds: the diff that starts with the delimiter
C19_DelimitedSectionChunkIsInput ==
    (splitDone /\ OneSection(diff) /\ Len(diff) = 2) =>
        /\ Len(chunks) = 1
        /\ chunks[1] = WithoutEmpty(diff, DiffText(diff))

(***************************************************************************)
(* The persisted config across a call of generateCommitMessage, under      *)
(* SpecGen.                                                                *)
(***************************************************************************)
\* the file is what the call found, but for LAST_REQUEST_TIME, set during the call
OnlyStamped ==
    \E t \in calledAt..now : configFile = [fileAtCall EXCEPT !.LAST_REQUEST_TIME = t]

C21_StampIsTimeOfReturn ==
    (config.IS_FREE_ACCOUNT /\ rlCalls > 0) => config.LAST_REQUEST_TIME = lastReturn

\* The part of C21 that holds: the stamp is the time the call read on entry,
\* which is the time of return when the call did not wait
C21_StampIsTimeOfEntry ==
    (config.IS_FREE_ACCOUNT /\ rlCalls > 0) =>
        /\ config.LAST_REQUEST_TIME <= lastReturn
        /\ ~lastWaited => config.LAST_REQUEST_TIME = lastReturn
        /\ lastWaited => config.LAST_REQUEST_TIME < lastReturn

\* the processor invocation of item k has settled
HasSettled(k) == outcome[k] \in {"ok", "empty", "fail"}

\* C22: item failures never fail batchProcess: whatever subset of the
\* invocations rejects, an item that was handed to the processor is never
\* handed to it again, and when batchProcess returns every item has been
\* processed and the list returned holds the outputs of succeeding
\* invocations only.
C22_ItemFailuresNeverFailTheBatch ==
    [][/\ \A k \in 1..items :
             /\ HasSettled(k) => outcome'[k] = outcome[k]
             /\ outcome[k] = "inflight" => outcome'[k] # "none"
       /\ pc' = "done" =>
             /\ \A k \in 1..items : outcome'[k] \in {"ok", "empty", "fail"}
             /\ Len(returned') <= items - Cardinality({k \in 1..items : outcome'[k] = "fail"})
             /\ \A e \in 1..Len(returned') :
                   \E k \in 1..items : outcome'[k] = "ok" /\ returned'[e] = Output(k)]_vars

\* every invocation of several windows rejected, and batchProcess returned
C22_Witness ==
    /\ pc = "done"
    /\ items > MAX_CONCURRENT_REQUESTS(config)
    /\ Failed = 1..items
    /\ returned = <<>>

\* the invocations in flight
InFlight == {k \in 1..items : outcome[k] = "inflight"}

\* the window of item k, counted from 0, for windows of n items
WindowOf(k, n) == (k - 1) \div n

\* C23: the invocations in flight are never more than the concurrency limit,
\* 2 on a free account and 5 otherwise, and no item of a later window is
\* dispatched before every item of the earlier windows has settled.
C23_InFlightBounded ==
    LET limit == IF config.IS_FREE_ACCOUNT THEN 2 ELSE 5
    IN  /\ Cardinality(InFlight) <= limit
        /\ \A k \in 1..items : outcome[k] # "none" =>
              \A j \in 1..items : WindowOf(j, limit) < WindowOf(k, limit) => HasSettled(j)

\* a full window of a free account in flight, after an earlier window
C23_Witness ==
    /\ config.IS_FREE_ACCOUNT
    /\ Cardinality(InFlight) = 2
    /\ i >= 2
    /\ \E k \in 1..items : outcome[k] = "none"

\* ceil(n / k)
CeilDiv(n, k) == (n + k - 1) \div k

\* C24: batchProcess calls rateLimiter once per window, and the call has
\* returned before an item of the window is dispatched: the calls returned so
\* far are as many as the windows dispatched so far, ceil(N/K) in all (none
\* for no items); while a call waits nothing is in flight and the earlier
\* windows have settled.
C24_OneThrottlePerWindow ==
    LET K == MAX_CONCURRENT_REQUESTS(config)
    IN  /\ \A k \in 1..items : outcome[k] # "none" <=> k <= rlCalls * K
        /\ rlCalls = i \div K + (IF pc = "inflight" THEN 1 ELSE 0)
        /\ pc = "wait" => InFlight = {} /\ \A k \in 1..i : HasSettled(k)
        /\ pc = "done" => rlCalls = CeilDiv(items, K)

\* three windows, the last one not full, each after a call of its own
C24_Witness ==
    /\ pc = "done"
    /\ rlCalls = 3
    /\ items % MAX_CONCURRENT_REQUESTS(config) # 0
    /\ lastWaited

(***************************************************************************)
(* The output of processDiff, section by section, under SpecDiff.          *)
(***************************************************************************)
InText(text, p) == \E q \in 1..Len(text) : text[q] = p

\* how section j appears in a processed text
Form(text, j) ==
    IF InText(text, Raw(j)) THEN "verbatim"
    ELSE IF InText(text, SummaryOf(j)) THEN "summary"
    ELSE "absent"

BlockOf(text, j) ==
    CASE Form(text, j) = "verbatim" -> Verbatim(j)
      [] Form(text, j) = "summary"  -> Summarized(j)
      [] Form(text, j) = "absent"   -> <<>>

\* the blocks of sections 1..j, in the order of the sections
RECURSIVE BlocksUpTo(_, _)
BlocksUpTo(text, j) == IF j = 0 THEN <<>> ELSE BlocksUpTo(text, j - 1) \o BlockOf(text, j)

\* the text ends with '\n...(remaining diffs summarized)'
Marked(text) == text # <<>> /\ text[Len(text)] = Remaining

\* what currentLength counts for a piece of the output (aiService.ts:248, 251)
CountedPiece(d, p) ==
    CASE p.t = "raw"       -> SegLen(d[p.seg])
      [] p.t = "delim"     -> VERBATIM_COUNTED
      [] p.t = "nl"        -> 0
      [] p.t = "summary"   -> SummaryLen(d[p.seg])
      [] p.t = "reps"      -> JoinedLen(RepresentativeChanges(d[p.seg]))
      [] p.t = "truncated" -> TRUNCATED_COUNTED
      [] p.t = "remaining" -> 0

RECURSIVE Counted(_, _)
Counted(d, text) ==
    IF text = <<>> THEN 0 ELSE CountedPiece(d, Head(text)) + Counted(d, Tail(text))

\* text is d processed section by section, where Acc measures the accumulated
\* length and copying a section adds its length and `added`: the sections
\* appear in order, each once, verbatim when copying keeps the accumulated
\* length within max and as a summary block otherwise; once the accumulated
\* length has reached max the marker follows and nothing else
ProcessedSectionBySection(d, text, max, Acc(_, _), added) ==
    /\ text = BlocksUpTo(text, Len(d)) \o (IF Marked(text) THEN <<Remaining>> ELSE <<>>)
    /\ \A j \in 1..Len(d) :
          LET before == Acc(d, BlocksUpTo(text, j - 1))
              through == Acc(d, BlocksUpTo(text, j))
          IN  /\ Form(text, j) = "verbatim" => before + SegLen(d[j]) + added <= max
              /\ Form(text, j) = "summary" =>
                    /\ before + SegLen(d[j]) + added > max
                    /\ Len(RepresentativeChanges(d[j])) <= 5
              /\ Form(text, j) = "absent" =>
                    \/ IsBlank(d[j])
                    \/ \E k \in 1..(j - 1) :
                          Form(text, k) # "absent" /\ Acc(d, BlocksUpTo(text, k)) >= max
              /\ (Form(text, j) # "absent" /\ \E k \in (j + 1)..Len(d) : Form(text, k) # "absent")
                    => through < max
    /\ Marked(text) <=>
          \E j \in 1..Len(d) : Form(text, j) # "absent" /\ Acc(d, BlocksUpTo(text, j)) >= max

\* C25: processDiff on a diff longer than maxLength emits the sections in
\* order; a section is copied verbatim while adding it keeps the accumulated
\* length of the output within maxLength and is otherwise replaced by a
\* summary block; as soon as the accumulated length reaches maxLength the
\* marker is appended once and no later section appears.
C25_ProcessedWithinMaxLength ==
    (processDone /\ DiffLen(diff) > MAX_DIFF_LENGTH) =>
        ProcessedSectionBySection(diff, processed, MAX_DIFF_LENGTH, TextLen, 1 + DELIM_LEN)

\* What holds in place of C25: the same, with the accumulated length being
\* currentLength, which counts 10 for the 11 characters of '\ndiff --git' and
\* 15 for the 16 of '\n...(truncated)\n', and with the test of line 237,
\* which adds the section's length alone
C25_ProcessedByRunningCount ==
    (processDone /\ DiffLen(diff) > MAX_DIFF_LENGTH) =>
        ProcessedSectionBySection(diff, processed, MAX_DIFF_LENGTH, Counted, 0)

(***************************************************************************)
(* Completion requests of successive and of concurrent calls, under        *)
(* SpecRace.                                                               *)
(***************************************************************************)
\* no request was dispatched while another call was under way
Sequential == \A e \in 1..Len(rlog) : ~rlog[e].overlap

\* every request but the last was answered and its call returned
AllSucceeded == \A e \in 1..(Len(rlog) - 1) : rlog[e].result = "ok"

\* the time between request e and the one before it
Gap(e) == rlog[e].at - rlog[e - 1].at

\* C26: on a free account, calls that run one after the other and all
\* succeed never dispatch two completion requests less than 60,000 ms apart
\* (two processes whose calls overlap can: the witness).
C26_SequentialRequestsSpaced ==
    (rfile.IS_FREE_ACCOUNT /\ Sequential /\ AllSucceeded) =>
        \A e \in 2..Len(rlog) : Gap(e) >= 60000

\* the race: both processes have read the config and passed the check before
\* either wrote it, and both requests were dispatched and answered less than
\* 60,000 ms apart
C26_Witness ==
    /\ rfile.IS_FREE_ACCOUNT
    /\ Len(rlog) >= 2
    /\ rlog[1].proc # rlog[2].proc
    /\ rlog[2].overlap
    /\ Gap(2) < 60000
    /\ rlog[1].result = "ok"
    /\ rlog[2].result = "ok"

\* C28: on a free account a dispatched completion request counts as the last
\* request whether it succeeded or failed: the requests of successive calls
\* are at least 60,000 ms apart.
C28_FailedRequestsCount ==
    (rfile.IS_FREE_ACCOUNT /\ Sequential) =>
        \A e \in 2..Len(rlog) :
            rlog[e - 1].result \in {"ok", "request failed"} => Gap(e) >= 60000

\* The part of C28 that holds: after a request that succeeded
C28_AnsweredRequestsCount ==
    (rfile.IS_FREE_ACCOUNT /\ Sequential) =>
        \A e \in 2..Len(rlog) : rlog[e - 1].result = "ok" => Gap(e) >= 60000

(***************************************************************************)
(* The service an AIService instance holds, under SpecGen.                 *)
(***************************************************************************)
\* C27: the instance holds a bound service only if that service's initialize
\* completed; after a binding failure (unsupported provider, no API key,
\* initialize throws) the instance is unbound, so that the next call binds
\* again and no completion is asked of a service that was never initialized.
C27_BoundOnlyIfInitialized ==
    /\ service.bound => service.initialized
    /\ cause \in BindingErrors => ~service.bound
    /\ \A p \in {"gemini", "openai"} : cause # NOT_INITIALIZED(p)

\* The part of C27 that holds: a provider the factory does not know leaves
\* the instance unbound
C27_UnsupportedProviderLeavesUnbound ==
    \A p \in {"other"} : cause = UNSUPPORTED(p) => ~service.bound

\* C30: when breaking is requested and the call succeeds, the message
\* returned contains the literal 'BREAKING CHANGE', whatever draft the
\* provider returned, a single-line draft with no blank line included.
C30_BreakingAlwaysMarked ==
    (gpc = "returned" /\ options.breaking) => Includes(message, <<BREAKING_CHANGE>>)

\* The part of C30 that holds: a draft with a blank line in it
C30_BreakingMarkedAfterBlankLine ==
    (gpc = "returned" /\ options.breaking /\ BlankLines(Trim(reply)) # {})
        => Includes(message, <<BREAKING_CHANGE>>)

(***************************************************************************)
(* The order of the git commands of CommitCommand.execute, under SpecCli.  *)
(***************************************************************************)
Pushes == {"git push", "git push --force"}

Commits == {"git commit", "git commit --amend"}

====
